---------------------------- MODULE Spec2Model ----------------------------
(***************************************************************************)
(* Model of pydantic/networks.py: AnyUrl.validate and its subclasses.      *)
(*                                                                         *)
(* A Python str is a TLA+ string; the character at 0-based position p of s *)
(* is At(s, p).  Python's None is the value None below.  A compiled        *)
(* pattern's match is computed group by group in the order of the regular  *)
(* expression, each group taking the first alternative in the priority     *)
(* order of a backtracking matcher (greedy: longest first).                *)
(***************************************************************************)
EXTENDS Integers, Sequences, FiniteSets, TLC

\* Python's None: distinct from every str the model builds (no input holds "<").
None == "<None>"

\* bool(x) of an optional str: None and '' are falsy.
Truthy(x) == x # None /\ x # ""

At(s, p) == IF p >= 0 /\ p < Len(s) THEN SubSeq(s, p + 1, p + 1) ELSE ""

Slice(s, a, b) == SubSeq(s, a + 1, b)

Max(S) == CHOOSE x \in S : \A y \in S : y <= x

Min(S) == CHOOSE x \in S : \A y \in S : x <= y

----------------------------------------------------------------------------
(* Character classes of the patterns (re.IGNORECASE).                      *)

Lower == {"a", "b", "c", "d", "e", "f", "g", "h", "i", "j", "k", "l", "m",
          "n", "o", "p", "q", "r", "s", "t", "u", "v", "w", "x", "y", "z"}

Upper == {"A", "B", "C", "D", "E", "F", "G", "H", "I", "J", "K", "L", "M",
          "N", "O", "P", "Q", "R", "S", "T", "U", "V", "W", "X", "Y", "Z"}

Digit == {"0", "1", "2", "3", "4", "5", "6", "7", "8", "9"}

\* \s
Space == {" ", "\t", "\n", "\r"}

\* The file stays ASCII: "^" stands for the letter U+00FC (u with diaeresis),
\* the one non-ASCII character of the model's inputs.
UUML == "^"

NonAscii == {UUML}

Letter == Lower \cup Upper

HexDigit == Digit \cup {"a", "b", "c", "d", "e", "f", "A", "B", "C", "D", "E", "F"}

LowerText == "abcdefghijklmnopqrstuvwxyz"

UpperText == "ABCDEFGHIJKLMNOPQRSTUVWXYZ"

\* str.lower() of one character.
LowerChar(c) ==
    IF c \in Upper
    THEN LET i == CHOOSE k \in 1..26 : SubSeq(UpperText, k, k) = c
         IN  SubSeq(LowerText, i, i)
    ELSE c

RECURSIVE lower(_)
lower(s) == IF s = "" THEN "" ELSE LowerChar(At(s, 0)) \o lower(Slice(s, 1, Len(s)))

\* First position q >= p whose character is outside class C (Len(s) if none):
\* the end of the greedy run C* from p.
RECURSIVE RunEnd(_, _, _)
RunEnd(s, p, C) == IF p < Len(s) /\ At(s, p) \in C THEN RunEnd(s, p + 1, C) ELSE p

\* The same for a negated class [^X].
RECURSIVE RunEndNot(_, _, _)
RunEndNot(s, p, X) == IF p < Len(s) /\ At(s, p) \notin X THEN RunEndNot(s, p + 1, X) ELSE p

\* str.split(sep) from position p on.
RECURSIVE SplitFrom(_, _, _)
SplitFrom(s, p, sep) ==
    LET q == RunEndNot(s, p, {sep})
    IN  IF q = Len(s) THEN <<Slice(s, p, q)>>
        ELSE <<Slice(s, p, q)>> \o SplitFrom(s, q + 1, sep)

split(s, sep) == SplitFrom(s, 0, sep)

\* sep.join(parts)
RECURSIVE join(_, _)
join(sep, parts) ==
    IF Len(parts) = 0 THEN ""
    ELSE IF Len(parts) = 1 THEN parts[1]
    ELSE parts[1] \o sep \o join(sep, Tail(parts))

DigitText == "0123456789"

DigitVal(c) == (CHOOSE k \in 1..10 : SubSeq(DigitText, k, k) = c) - 1

\* int(s) of a string of decimal digits.
RECURSIVE int(_)
int(s) == IF s = "" THEN 0 ELSE 10 * int(Slice(s, 0, Len(s) - 1)) + DigitVal(At(s, Len(s) - 1))

----------------------------------------------------------------------------
(* The grammar: _scheme_regex, _user_info_regex, _host_regex, _path_regex, *)
(* _query_regex, _fragment_regex.  Every group after the current one is    *)
(* optional and match() need not reach the end of the input, so the first  *)
(* way a group matches is never undone by what follows it.                 *)

\* The positions the scheme can end at: [a-z][a-z0-9+\-.]+ followed by ://
SchemeEnds(s) ==
    {n \in 2..RunEnd(s, 1, Letter \cup Digit \cup {"+", "-", "."}) :
        At(s, 0) \in Letter /\ n + 3 <= Len(s) /\ Slice(s, n, n + 3) = "://"}

SchemeGroup(s, ends) ==
    IF ends = {} THEN [scheme |-> None, end |-> 0]
    ELSE [scheme |-> Slice(s, 0, Max(ends)), end |-> Max(ends) + 3]

\* (?:(?P<scheme>[a-z][a-z0-9+\-.]+)://)?   at position 0
SchemeMatch(s) == SchemeGroup(s, SchemeEnds(s))

\* (?::(?P<password>[^\s/]*))?@ after a user that ends at u: the positions of
\* the @ that can end a password.
PasswordEnds(s, u) ==
    IF At(s, u) = ":"
    THEN {q \in (u + 1)..RunEndNot(s, u + 1, Space \cup {"/"}) : At(s, q) = "@"}
    ELSE {}

\* (?P<user>[^\s:/]*) from p: the ends of a user after which the group goes on.
UserEnds(s, p) ==
    {u \in p..RunEndNot(s, p, Space \cup {":", "/"}) :
        PasswordEnds(s, u) # {} \/ At(s, u) = "@"}

UserGroup(s, p, u, pw) ==
    IF pw # {}
    THEN [user |-> Slice(s, p, u), password |-> Slice(s, u + 1, Max(pw)), end |-> Max(pw) + 1]
    ELSE [user |-> Slice(s, p, u), password |-> None, end |-> u + 1]

\* The longest user first; with it a password before none, the longest first.
UserInfoGroup(s, p, users) ==
    IF users = {} THEN [user |-> None, password |-> None, end |-> p]
    ELSE UserGroup(s, p, Max(users), PasswordEnds(s, Max(users)))

\* (?:(?P<user>[^\s:/]*)(?::(?P<password>[^\s/]*))?@)?   at position p
UserInfoMatch(s, p) == UserInfoGroup(s, p, UserEnds(s, p))

\* (?=$|[/:#?])
HostLookahead(s, e) ==
    \/ e = Len(s)
    \/ e = Len(s) - 1 /\ At(s, e) = "\n"
    \/ At(s, e) \in {"/", ":", "#", "?"}

\* \d{1,3} from each position of S: the positions it can end at.
OctetEnds(s, S) ==
    UNION {{q + n : n \in {k \in 1..3 : \A i \in 0..(k - 1) : At(s, q + i) \in Digit}} : q \in S}

\* \. from each position of S
DotEnds(s, S) == {q + 1 : q \in {r \in S : At(s, r) = "."}}

\* (?:\d{1,3}\.){3}\d{1,3}(?=$|[/:#?]) from p: the positions it can end at.
IPv4Ends(s, p) ==
    {e \in OctetEnds(s, DotEnds(s, OctetEnds(s, DotEnds(s, OctetEnds(s,
              DotEnds(s, OctetEnds(s, {p}))))))) : HostLookahead(s, e)}

\* [A-F0-9:]+\] from the position after the colon c: the end of the group.
IPv6Close(s, c) == RunEnd(s, c + 1, HexDigit \cup {":"})

\* \[[A-F0-9]*:[A-F0-9:]+\](?=$|[/:#?]) from p: the positions it can end at.
IPv6Ends(s, p) ==
    IF At(s, p) # "[" THEN {}
    ELSE {IPv6Close(s, c) + 1 :
            c \in {d \in (p + 1)..RunEnd(s, p + 1, HexDigit) :
                     /\ At(s, d) = ":"
                     /\ IPv6Close(s, d) > d + 1
                     /\ At(s, IPv6Close(s, d)) = "]"
                     /\ HostLookahead(s, IPv6Close(s, d) + 1)}}

\* (?:ipv4|ipv6|domain)? : the first alternative that matches, in this order.
HostGroup(s, p, v4, v6, de) ==
    IF v4 # {} THEN [ipv4 |-> Slice(s, p, Max(v4)), ipv6 |-> None, domain |-> None, end |-> Max(v4)]
    ELSE IF v6 # {} THEN [ipv4 |-> None, ipv6 |-> Slice(s, p, Max(v6)), domain |-> None, end |-> Max(v6)]
    ELSE IF de > p THEN [ipv4 |-> None, ipv6 |-> None, domain |-> Slice(s, p, de), end |-> de]
    ELSE [ipv4 |-> None, ipv6 |-> None, domain |-> None, end |-> p]

\* (?::(?P<port>\d+))? after the host h, the digits ending at pe.
PortGroup(s, h, pe) ==
    IF At(s, h.end) = ":" /\ pe > h.end + 1
    THEN [ipv4 |-> h.ipv4, ipv6 |-> h.ipv6, domain |-> h.domain,
          port |-> Slice(s, h.end + 1, pe), end |-> pe]
    ELSE [ipv4 |-> h.ipv4, ipv6 |-> h.ipv6, domain |-> h.domain, port |-> None, end |-> h.end]

HostPort(s, h) == PortGroup(s, h, RunEnd(s, h.end + 1, Digit))

\* _host_regex from p; the domain is [^\s/:?#]+
HostMatch(s, p) ==
    HostPort(s, HostGroup(s, p, IPv4Ends(s, p), IPv6Ends(s, p),
                          RunEndNot(s, p, Space \cup {"/", ":", "?", "#"})))

FragmentGroup(s, path, query, qe, fe) ==
    [path |-> path, query |-> query,
     fragment |-> IF At(s, qe) = "#" THEN Slice(s, qe + 1, fe) ELSE None,
     end |-> fe]

QueryGroup(s, path, pe, qe) ==
    FragmentGroup(s, path, IF At(s, pe) = "?" THEN Slice(s, pe + 1, qe) ELSE None, qe,
                  IF At(s, qe) = "#" THEN RunEndNot(s, qe + 1, Space \cup {"#"}) ELSE qe)

PathGroup(s, p, pe) ==
    QueryGroup(s, IF At(s, p) = "/" THEN Slice(s, p, pe) ELSE None, pe,
               IF At(s, pe) = "?" THEN RunEndNot(s, pe + 1, Space \cup {"#"}) ELSE pe)

\* (?P<path>/[^\s?#]*)?(?:\?(?P<query>[^\s#]*))?(?:#(?P<fragment>[^\s#]*))?
TailMatch(s, p) ==
    PathGroup(s, p, IF At(s, p) = "/" THEN RunEndNot(s, p + 1, Space \cup {"?", "#"}) ELSE p)

UrlGroups(sc, ui, hm, tl) ==
    [groups |-> [scheme |-> sc.scheme, user |-> ui.user, password |-> ui.password,
                 ipv4 |-> hm.ipv4, ipv6 |-> hm.ipv6, domain |-> hm.domain,
                 port |-> hm.port, path |-> tl.path, query |-> tl.query,
                 fragment |-> tl.fragment],
     end |-> tl.end]

UrlAfterHost(s, sc, ui, hm) == UrlGroups(sc, ui, hm, TailMatch(s, hm.end))

UrlAfterUser(s, sc, ui) == UrlAfterHost(s, sc, ui, HostMatch(s, ui.end))

UrlAfterScheme(s, sc) == UrlAfterUser(s, sc, UserInfoMatch(s, sc.end))

\* url_regex().match(url): the groupdict and m.end().
url_regex_match(u) == UrlAfterScheme(u, SchemeMatch(u))

MultiGroups(s, sc, ui, he, tl) ==
    [groups |-> [scheme |-> sc.scheme, user |-> ui.user, password |-> ui.password,
                 hosts |-> Slice(s, ui.end, he),
                 path |-> tl.path, query |-> tl.query, fragment |-> tl.fragment],
     end |-> tl.end]

MultiAfterHosts(s, sc, ui, he) == MultiGroups(s, sc, ui, he, TailMatch(s, he))

MultiAfterUser(s, sc, ui) == MultiAfterHosts(s, sc, ui, RunEndNot(s, ui.end, {"/"}))

MultiAfterScheme(s, sc) == MultiAfterUser(s, sc, UserInfoMatch(s, sc.end))

\* multi_host_url_regex().match(url): the host position is (?P<hosts>([^/]*)).
multi_host_url_regex_match(u) == MultiAfterScheme(u, SchemeMatch(u))

HostDict(hm) == [ipv4 |-> hm.ipv4, ipv6 |-> hm.ipv6, domain |-> hm.domain, port |-> hm.port]

\* host_regex().match(host).groupdict()
host_regex_match(host) == HostDict(HostMatch(host, 0))

----------------------------------------------------------------------------
(* ascii_domain_regex() and int_domain_regex(), used with fullmatch.       *)
(* Both have the shape (?:chunk\.)*?chunk(?P<tld>...)?\.? and no chunk or  *)
(* tld holds a dot, so a full match takes one label per chunk; the lazy    *)
(* *? tries fewer repetitions first, which leaves the last label to the    *)
(* tld group whenever that label has the tld's shape.                      *)

AsciiChunkEdge == Lower \cup Upper \cup Digit \cup {"_"}

\* [_0-9a-\U00040000] under re.IGNORECASE
IntChunkEdge == AsciiChunkEdge \cup {"{", "|", "}", "~"} \cup NonAscii

AllIn(s, C) == \A i \in 0..(Len(s) - 1) : At(s, i) \in C

\* edge(?:[-edge]{0,61}edge)?
IsChunk(l, edge) ==
    /\ Len(l) >= 1 /\ Len(l) <= 63
    /\ At(l, 0) \in edge /\ At(l, Len(l) - 1) \in edge
    /\ AllIn(l, edge \cup {"-"})

\* \.[a-z]{2,63}  (the label after the dot)
IsAsciiTld(l) == Len(l) >= 2 /\ Len(l) <= 63 /\ AllIn(l, Letter)

\* (\.[^\W\d_]{2,63})|(\.(?:xn--)[_0-9a-z-]{2,63})  (the label after the dot)
IsIntTld(l) ==
    \/ Len(l) >= 2 /\ Len(l) <= 63 /\ AllIn(l, Letter \cup NonAscii)
    \/ /\ Len(l) >= 6 /\ Len(l) <= 67
       /\ lower(Slice(l, 0, 4)) = "xn--"
       /\ AllIn(Slice(l, 4, Len(l)), AsciiChunkEdge \cup {"-"})

\* The labels of a host, without the empty one that a final dot leaves.
DomainLabels(all) ==
    IF Len(all) >= 2 /\ all[Len(all)] = "" THEN SubSeq(all, 1, Len(all) - 1) ELSE all

TldGroup(last, front, asTld, asChunk) ==
    [matched |-> front /\ (asTld \/ asChunk),
     tld     |-> IF front /\ asTld THEN "." \o last ELSE None]

\* The labels against (?:chunk\.)*?chunk(?P<tld>...)?\.? , international or not.
LabelsFullmatch(labels, intl) ==
    TldGroup(labels[Len(labels)],
             \A i \in 1..(Len(labels) - 1) :
                 IsChunk(labels[i], IF intl THEN IntChunkEdge ELSE AsciiChunkEdge),
             /\ Len(labels) >= 2
             /\ IF intl THEN IsIntTld(labels[Len(labels)]) ELSE IsAsciiTld(labels[Len(labels)]),
             IsChunk(labels[Len(labels)], IF intl THEN IntChunkEdge ELSE AsciiChunkEdge))

\* ascii_domain_regex().fullmatch(host): whether it matches, and group('tld').
ascii_domain_fullmatch(host) == LabelsFullmatch(DomainLabels(split(host, ".")), FALSE)

\* int_domain_regex().fullmatch(host): whether it matches, and group('tld').
int_domain_fullmatch(host) == LabelsFullmatch(DomainLabels(split(host, ".")), TRUE)

----------------------------------------------------------------------------
(* str.encode('idna') of the standard library (encodings.idna and          *)
(* encodings.punycode), which validate_host calls on an international host.*)

\* Runs of the ASCII table, each with the code point of its first character.
AsciiRuns == << <<32, " !">>,
                <<35, "#$%&'()*+,-./0123456789:;<=>?@ABCDEFGHIJKLMNOPQRSTUVWXYZ[">>,
                <<93, "]">>,
                <<95, "_">>,
                <<97, "abcdefghijklmnopqrstuvwxyz{|}~">> >>

OrdAt(hit) == AsciiRuns[hit[1]][1] + hit[2] - 1

\* ord(c)
ord(c) ==
    IF c = UUML THEN 252
    ELSE OrdAt(CHOOSE rk \in {<<r, k>> \in (1..Len(AsciiRuns)) \X (1..60) :
                                 k <= Len(AsciiRuns[r][2])} :
                   SubSeq(AsciiRuns[rk[1]][2], rk[2], rk[2]) = c)

IsAscii(s) == \A i \in 0..(Len(s) - 1) : At(s, i) \notin NonAscii

PunyDigits == "abcdefghijklmnopqrstuvwxyz0123456789"

\* punycode.T(j, bias) with k = 36 * (j + 1)
PunyT(k, bias) == IF k - bias < 1 THEN 1 ELSE IF k - bias > 26 THEN 26 ELSE k - bias

\* punycode.generate_generalized_integer
RECURSIVE PunyVarInt(_, _, _)
PunyVarInt(q, k, bias) ==
    IF q < PunyT(k, bias) THEN At(PunyDigits, q)
    ELSE At(PunyDigits, PunyT(k, bias) + ((q - PunyT(k, bias)) % (36 - PunyT(k, bias))))
         \o PunyVarInt((q - PunyT(k, bias)) \div (36 - PunyT(k, bias)), k + 36, bias)

RECURSIVE PunyAdaptLoop(_, _)
PunyAdaptLoop(d, k) ==
    IF d > 455 THEN PunyAdaptLoop(d \div 35, k + 36) ELSE k + ((36 * d) \div (d + 38))

PunyAdaptFrom(d, numchars) == PunyAdaptLoop(d + (d \div numchars), 0)

\* punycode.adapt
PunyAdapt(delta, first, numchars) ==
    PunyAdaptFrom(IF first THEN delta \div 700 ELSE delta \div 2, numchars)

\* One pass over the label for code point n (RFC 3492, 6.3).
RECURSIVE PunyPass(_, _, _, _, _)
PunyPass(label, i, st, n, b) ==
    IF i >= Len(label) THEN st
    ELSE IF ord(At(label, i)) < n
    THEN PunyPass(label, i + 1, [st EXCEPT !.delta = @ + 1], n, b)
    ELSE IF ord(At(label, i)) = n
    THEN PunyPass(label, i + 1,
                  [delta |-> 0,
                   bias  |-> PunyAdapt(st.delta, st.h = b, st.h + 1),
                   h     |-> st.h + 1,
                   out   |-> st.out \o PunyVarInt(st.delta, 36, st.bias)],
                  n, b)
    ELSE PunyPass(label, i + 1, st, n, b)

PunyBump(st) == [st EXCEPT !.delta = @ + 1]

\* The passes, each for the least code point m not yet encoded.
RECURSIVE PunyLoop(_, _, _, _)
PunyNext(label, st, n, b, m) ==
    PunyLoop(label,
             PunyBump(PunyPass(label, 0, [st EXCEPT !.delta = @ + (m - n) * (st.h + 1)], m, b)),
             m + 1, b)

PunyLoop(label, st, n, b) ==
    IF st.h >= Len(label) THEN st.out
    ELSE PunyNext(label, st, n, b,
                  Min({ord(At(label, i)) :
                         i \in {j \in 0..(Len(label) - 1) : ord(At(label, j)) >= n}}))

RECURSIVE AsciiOf(_)
AsciiOf(s) ==
    IF s = "" THEN ""
    ELSE (IF At(s, 0) \in NonAscii THEN "" ELSE At(s, 0)) \o AsciiOf(Slice(s, 1, Len(s)))

PunyStart(label, base) ==
    PunyLoop(label,
             [delta |-> 0, bias |-> 72, h |-> Len(base),
              out |-> IF Len(base) > 0 THEN base \o "-" ELSE ""],
             128, Len(base))

\* punycode.punycode_encode
punycode_encode(label) == PunyStart(label, AsciiOf(label))

UnicodeError == [kind |-> "exception", type |-> "UnicodeError", msg |-> "encoding with 'idna' codec failed", ctx |-> None]

NoError == [kind |-> "none", type |-> "", msg |-> "", ctx |-> None]

\* A label of 1 to 63 characters, or the codec's UnicodeError (ok = FALSE).
SizedLabel(text) == [ok |-> Len(text) > 0 /\ Len(text) < 64, text |-> text]

\* A nameprepped label: it must not start with the ACE prefix, and is
\* punycoded behind "xn--".
AceLabel(prepped) ==
    IF Len(prepped) >= 4 /\ Slice(prepped, 0, 4) = "xn--"
    THEN [ok |-> FALSE, text |-> ""]
    ELSE SizedLabel("xn--" \o punycode_encode(prepped))

\* encodings.idna.ToASCII: an ASCII label is returned as it is; another is
\* nameprepped (case-folded) and encoded.
ToASCII(label) == IF IsAscii(label) THEN SizedLabel(label) ELSE AceLabel(lower(label))

\* The fast path of an ASCII name.
IdnaAscii(s, all) ==
    [ok |-> /\ \A i \in 1..(Len(all) - 1) : Len(all[i]) > 0 /\ Len(all[i]) < 64
            /\ Len(all[Len(all)]) < 64,
     text |-> s]

IdnaJoin(enc, dot) ==
    [ok   |-> \A i \in 1..Len(enc) : enc[i].ok,
     text |-> join(".", [i \in 1..Len(enc) |-> enc[i].text]) \o (IF dot THEN "." ELSE "")]

IdnaLabels(labels, dot) == IdnaJoin([i \in 1..Len(labels) |-> ToASCII(labels[i])], dot)

IdnaUnicode(all) == IdnaLabels(DomainLabels(all), Len(all) >= 2 /\ all[Len(all)] = "")

\* s.encode('idna').decode('ascii'): ok = FALSE is the codec's UnicodeError.
idna_encode(s) ==
    IF s = "" THEN [ok |-> TRUE, text |-> ""]
    ELSE IF IsAscii(s) THEN IdnaAscii(s, split(s, "."))
    ELSE IdnaUnicode(split(s, "."))

----------------------------------------------------------------------------
(* The URL families: AnyUrl and its subclasses, by their class attributes. *)

Families == {"AnyUrl", "AnyHttpUrl", "HttpUrl", "FileUrl", "PostgresDsn",
             "CockroachDsn", "AmqpDsn", "RedisDsn", "MongoDsn", "KafkaDsn"}

\* Subclasses of MultiHostDsn.
IsMultiHost(cls) == cls = "PostgresDsn"

\* cls.allowed_schemes; None (AnyUrl) is the empty collection, falsy alike.
allowed_schemes(cls) ==
    CASE cls \in {"AnyHttpUrl", "HttpUrl"} -> {"http", "https"}
      [] cls = "FileUrl"      -> {"file"}
      [] cls = "PostgresDsn"  -> {"postgres", "postgresql", "postgresql+asyncpg",
                                  "postgresql+pg8000", "postgresql+psycopg",
                                  "postgresql+psycopg2", "postgresql+psycopg2cffi",
                                  "postgresql+py-postgresql", "postgresql+pygresql"}
      [] cls = "CockroachDsn" -> {"cockroachdb", "cockroachdb+psycopg2", "cockroachdb+asyncpg"}
      [] cls = "AmqpDsn"      -> {"amqp", "amqps"}
      [] cls = "RedisDsn"     -> {"redis", "rediss"}
      [] cls = "MongoDsn"     -> {"mongodb"}
      [] cls = "KafkaDsn"     -> {"kafka"}
      [] OTHER                -> {}

tld_required(cls) == cls = "HttpUrl"

user_required(cls) == cls \in {"PostgresDsn", "CockroachDsn"}

host_required(cls) == cls \notin {"FileUrl", "AmqpDsn", "RedisDsn"}

hidden_parts(cls) == IF cls = "HttpUrl" THEN {"port"} ELSE {}

\* cls.get_default_parts(parts): a dict, here a function on its keys.
get_default_parts(cls, parts) ==
    CASE cls = "HttpUrl"  -> [port |-> IF parts.scheme = "http" THEN "80" ELSE "443"]
      [] cls = "RedisDsn" -> [domain |-> IF ~(Truthy(parts.ipv4) \/ Truthy(parts.ipv6))
                                         THEN "localhost" ELSE "",
                              port   |-> "6379",
                              path   |-> "/0"]
      [] cls = "MongoDsn" -> [port |-> "27017"]
      [] cls = "KafkaDsn" -> [domain |-> "localhost", port |-> "9092"]
      [] OTHER            -> << >>

\* The loop without its "if not parts[key]": a default replaces the part.
fill_defaults_unguarded(parts, defaults) ==
    [key \in DOMAIN parts |->
        IF key \in DOMAIN defaults THEN defaults[key] ELSE parts[key]]

\* for key, value in defaults.items(): if not parts[key]: parts[key] = value
fill_defaults(parts, defaults) ==
    [key \in DOMAIN parts |->
        IF key \in DOMAIN defaults /\ ~Truthy(parts[key])
        THEN defaults[key] ELSE parts[key]]

\* cls.apply_default_parts(parts)
apply_default_parts(cls, parts) == fill_defaults(parts, get_default_parts(cls, parts))

\* cls._match_url(url)
match_url(cls, u) ==
    IF IsMultiHost(cls) THEN multi_host_url_regex_match(u) ELSE url_regex_match(u)

----------------------------------------------------------------------------
(* PydanticCustomError(type, message, context)                             *)

CustomError(type, msg, ctx) == [kind |-> "error", type |-> type, msg |-> msg, ctx |-> ctx]

\* a < b for str (by code point).
RECURSIVE StrLess(_, _)
StrLess(a, b) ==
    IF b = "" THEN FALSE
    ELSE IF a = "" THEN TRUE
    ELSE IF At(a, 0) # At(b, 0) THEN ord(At(a, 0)) < ord(At(b, 0))
    ELSE StrLess(Slice(a, 1, Len(a)), Slice(b, 1, Len(b)))

\* sorted(set(S))
RECURSIVE sorted(_)
sorted(S) ==
    IF S = {} THEN << >>
    ELSE LET least == CHOOSE x \in S : \A y \in S \ {x} : StrLess(x, y)
         IN  <<least>> \o sorted(S \ {least})

MaxPort == 65535

\* The bound compared with >= : port 65535 is refused.
validate_port_inclusive(port) ==
    IF port # None /\ int(port) >= MaxPort
    THEN CustomError("url.port", "URL port invalid, port cannot exceed 65535", None)
    ELSE NoError

\* AnyUrl._validate_port(port)
validate_port(port) ==
    IF port # None /\ int(port) > MaxPort
    THEN CustomError("url.port", "URL port invalid, port cannot exceed 65535", None)
    ELSE NoError

\* The membership test without scheme.lower().
scheme_refused_exact(cls, scheme) ==
    allowed_schemes(cls) # {} /\ scheme \notin allowed_schemes(cls)

\* cls.allowed_schemes and scheme.lower() not in cls.allowed_schemes
scheme_refused(cls, scheme) ==
    allowed_schemes(cls) # {} /\ lower(scheme) \notin allowed_schemes(cls)

\* AnyUrl.validate_parts(parts, validate_port): the error raised, or NoError.
AnyUrl_validate_parts(cls, parts, check_port) ==
    IF parts.scheme = None
    THEN CustomError("url.scheme", "invalid or missing URL scheme", None)
    ELSE IF scheme_refused(cls, parts.scheme)
    THEN CustomError("url.scheme", "URL scheme not permitted",
                     join(", ", sorted(allowed_schemes(cls))))
    ELSE IF check_port /\ validate_port(parts.port).kind # "none"
    THEN validate_port(parts.port)
    ELSE IF user_required(cls) /\ parts.user = None
    THEN CustomError("url.userinfo", "userinfo required in URL but missing", None)
    ELSE NoError

\* cls.validate_parts(parts): MultiHostDsn passes validate_port=False.
validate_parts(cls, parts) == AnyUrl_validate_parts(cls, parts, ~IsMultiHost(cls))

HostInvalid == CustomError("url.host", "URL host invalid", None)

TldRequired == CustomError("url.host", "URL host invalid, top level domain required", None)

HostResult(err, host, tld, host_type, rebuild) ==
    [err |-> err, host |-> host, tld |-> tld, host_type |-> host_type, rebuild |-> rebuild]

\* host.encode('idna') and tld.encode('idna') of an international domain.
international(host, tld, ehost, etld) ==
    IF ~ehost.ok \/ ~etld.ok
    THEN HostResult(UnicodeError, host, tld, "int_domain", TRUE)
    ELSE HostResult(NoError, ehost.text, etld.text, "int_domain", TRUE)

\* From "if tld is not None" on: tld is the tld without its dot, or None.
domain_checked(cls, host, tld, is_international) ==
    IF tld = None /\ tld_required(cls)
    THEN HostResult(TldRequired, host, None, "domain", FALSE)
    ELSE IF ~is_international
    THEN HostResult(NoError, host, tld, "domain", FALSE)
    ELSE international(host, tld, idna_encode(host),
                       IF tld # None THEN idna_encode(tld) ELSE [ok |-> TRUE, text |-> None])

\* tld = d.group('tld'); when it is None and the ASCII pattern matched, the
\* international pattern i is matched again and the domain is international.
domain_tld(cls, host, d, i, is_international) ==
    IF d.tld = None /\ ~is_international
    THEN domain_checked(cls, host, IF i.tld # None THEN Slice(i.tld, 1, Len(i.tld)) ELSE None, TRUE)
    ELSE domain_checked(cls, host, IF d.tld # None THEN Slice(d.tld, 1, Len(d.tld)) ELSE None,
                        is_international)

\* d = ascii_domain_regex().fullmatch(host), then int_domain_regex() if None.
domain_matched(cls, host, a, i) ==
    IF a.matched THEN domain_tld(cls, host, a, i, FALSE)
    ELSE IF i.matched THEN domain_tld(cls, host, i, i, TRUE)
    ELSE HostResult(HostInvalid, host, None, "domain", FALSE)

\* The domain branch of validate_host (host_type == 'domain').
validate_domain(cls, host) ==
    domain_matched(cls, host, ascii_domain_fullmatch(host), int_domain_fullmatch(host))

\* After the loop over ('domain', 'ipv4', 'ipv6').
host_found(cls, host, host_type) ==
    IF host = None
    THEN HostResult(IF host_required(cls) THEN HostInvalid ELSE NoError,
                    host, None, host_type, FALSE)
    ELSE IF host_type = "domain" THEN validate_domain(cls, host)
    ELSE HostResult(NoError, host, None, host_type, FALSE)

\* cls.validate_host(parts): (host, tld, host_type, rebuild), or the
\* exception raised in err.
validate_host(cls, parts) ==
    IF Truthy(parts.domain) THEN host_found(cls, parts.domain, "domain")
    ELSE IF Truthy(parts.ipv4) THEN host_found(cls, parts.ipv4, "ipv4")
    ELSE IF Truthy(parts.ipv6) THEN host_found(cls, parts.ipv6, "ipv6")
    ELSE host_found(cls, parts.ipv6, None)

----------------------------------------------------------------------------
(* Building the value: AnyUrl.build, AnyUrl.__new__, AnyUrl.__init__,       *)
(* AnyUrl._build_url and MultiHostDsn._build_url.                          *)

TypeError == [kind |-> "exception", type |-> "TypeError",
              msg |-> "build() missing 1 required keyword-only argument: 'host'", ctx |-> None]

\* hosts=None of MultiHostDsn.__init__ (a hosts list is never empty), and the
\* value of a class that has no hosts slot.
NoHosts == << >>

\* A keyword argument with default None.
Kw(kwargs, k) == IF k \in DOMAIN kwargs THEN kwargs[k] ELSE None

\* port and ('port' not in cls.hidden_parts
\*           or cls.get_default_parts(parts).get('port') != port)
port_shown(cls, kwargs, port) ==
    /\ Truthy(port)
    /\ \/ "port" \notin hidden_parts(cls)
       \/ get_default_parts(cls, kwargs).port # port

build_text(cls, kwargs, user, password, port, path, query, fragment) ==
    kwargs.scheme \o "://"
    \o (IF Truthy(user) THEN user ELSE "")
    \o (IF Truthy(password) THEN ":" \o password ELSE "")
    \o (IF Truthy(user) \/ Truthy(password) THEN "@" ELSE "")
    \o kwargs.host
    \o (IF port_shown(cls, kwargs, port) THEN ":" \o port ELSE "")
    \o (IF Truthy(path) THEN path ELSE "")
    \o (IF Truthy(query) THEN "?" \o query ELSE "")
    \o (IF Truthy(fragment) THEN "#" \o fragment ELSE "")

\* cls.build(**kwargs): host is a required keyword.
build(cls, kwargs) ==
    IF "host" \notin DOMAIN kwargs THEN [err |-> TypeError, url |-> None]
    ELSE [err |-> NoError,
          url |-> build_text(cls, kwargs, Kw(kwargs, "user"), Kw(kwargs, "password"),
                             Kw(kwargs, "port"), Kw(kwargs, "path"), Kw(kwargs, "query"),
                             Kw(kwargs, "fragment"))]

\* AnyUrl.__init__ and MultiHostDsn.__init__: host_type defaults to 'domain',
\* the other parts to None.
init(kwargs, text) ==
    [err   |-> text.err,
     value |-> [str       |-> text.url,
                scheme    |-> kwargs.scheme,
                user      |-> Kw(kwargs, "user"),
                password  |-> Kw(kwargs, "password"),
                host      |-> Kw(kwargs, "host"),
                tld       |-> Kw(kwargs, "tld"),
                host_type |-> IF "host_type" \in DOMAIN kwargs THEN kwargs.host_type ELSE "domain",
                port      |-> Kw(kwargs, "port"),
                path      |-> Kw(kwargs, "path"),
                query     |-> Kw(kwargs, "query"),
                fragment  |-> Kw(kwargs, "fragment"),
                hosts     |-> IF "hosts" \in DOMAIN kwargs THEN kwargs.hosts ELSE NoHosts]]

\* cls(url, **kwargs): __new__ builds the text when url is None.
new(cls, u, kwargs) ==
    init(kwargs, IF u = None THEN build(cls, kwargs) ELSE [err |-> NoError, url |-> u])

\* A host record and the exception raised for it, if any: that of
\* validate_host, else that of the port check.
host_record(vh, port, port_error) ==
    [err       |-> IF vh.err.kind # "none" THEN vh.err ELSE port_error,
     host      |-> vh.host,
     host_type |-> vh.host_type,
     tld       |-> vh.tld,
     rebuild   |-> vh.rebuild,
     port      |-> port]

host_dict(cls, d) == host_record(validate_host(cls, d), d.port, validate_port(d.port))

\* One pass of the loop of MultiHostDsn._build_url over a host segment.
host_part(cls, seg) == host_dict(cls, host_regex_match(seg))

hosts_loop(cls, segs) == [i \in 1..Len(segs) |-> host_part(cls, segs[i])]

\* The host records of a match: the loop of MultiHostDsn._build_url, or the
\* one validate_host call of AnyUrl._build_url.
validate_hosts(cls, groups, parts) ==
    IF IsMultiHost(cls) THEN hosts_loop(cls, split(groups.hosts, ","))
    ELSE << host_record(validate_host(cls, parts), parts.port, NoError) >>

first_of(hps, bad) == IF bad = {} THEN NoError ELSE hps[Min(bad)].err

\* The exception the loop raises: that of the first record that has one.
first_error(hps) == first_of(hps, {i \in 1..Len(hps) : hps[i].err.kind # "none"})

\* A HostParts dict.
HostParts(hp) == [host |-> hp.host, host_type |-> hp.host_type, tld |-> hp.tld,
                  rebuild |-> hp.rebuild, port |-> hp.port]

\* The cls(...) call that ends AnyUrl._build_url.
AnyUrl_construct(cls, u, parts, hps) ==
    new(cls, IF hps[1].rebuild THEN None ELSE u,
        [scheme |-> parts.scheme, user |-> parts.user, password |-> parts.password,
         host |-> hps[1].host, tld |-> hps[1].tld, host_type |-> hps[1].host_type,
         port |-> parts.port, path |-> parts.path, query |-> parts.query,
         fragment |-> parts.fragment])

\* _build_url without its single-host branch: every value has the hosts list.
MultiHostDsn_construct_listed(cls, u, parts, hps) ==
    new(cls, IF \E i \in 1..Len(hps) : hps[i].rebuild THEN None ELSE u,
        [scheme |-> parts.scheme, user |-> parts.user, password |-> parts.password,
         path |-> parts.path, query |-> parts.query, fragment |-> parts.fragment,
         host_type |-> None,
         hosts |-> [i \in 1..Len(hps) |-> [host |-> hps[i].host, host_type |-> hps[i].host_type,
                                           tld |-> hps[i].tld, rebuild |-> hps[i].rebuild,
                                           port |-> hps[i].port]]])

\* The cls(...) calls that end MultiHostDsn._build_url.
MultiHostDsn_construct(cls, u, parts, hps) ==
    IF Len(hps) > 1
    THEN new(cls, IF \E i \in 1..Len(hps) : hps[i].rebuild THEN None ELSE u,
             [scheme |-> parts.scheme, user |-> parts.user, password |-> parts.password,
              path |-> parts.path, query |-> parts.query, fragment |-> parts.fragment,
              host_type |-> None,
              hosts |-> [i \in 1..Len(hps) |-> HostParts(hps[i])]])
    ELSE new(cls, IF hps[1].rebuild THEN None ELSE u,
             [scheme |-> parts.scheme, user |-> parts.user, password |-> parts.password,
              host |-> hps[1].host, tld |-> hps[1].tld, host_type |-> hps[1].host_type,
              port |-> hps[1].port, path |-> parts.path, query |-> parts.query,
              fragment |-> parts.fragment])

construct(cls, u, parts, hps) ==
    IF IsMultiHost(cls) THEN MultiHostDsn_construct(cls, u, parts, hps)
    ELSE AnyUrl_construct(cls, u, parts, hps)

----------------------------------------------------------------------------
(* The inputs of the model: a scheme, user info, a host (or, for a         *)
(* multi-host family, up to MaxHosts comma-separated host segments), a     *)
(* port and a tail, concatenated.                                          *)

MaxHosts == 2

SchemeInputs(cls) ==
    CASE cls = "AnyUrl"                     -> {"", "http://", "ftp://"}
      [] cls \in {"AnyHttpUrl", "HttpUrl"}  -> {"", "http://", "HTTP://", "https://", "ftp://"}
      [] cls = "FileUrl"                    -> {"file://", "ftp://"}
      [] cls = "PostgresDsn"                -> {"", "postgres://", "ftp://"}
      [] cls = "CockroachDsn"               -> {"cockroachdb://", "ftp://"}
      [] cls = "AmqpDsn"                    -> {"amqp://", "ftp://"}
      [] cls = "RedisDsn"                   -> {"", "redis://", "REDIS://", "ftp://"}
      [] cls = "MongoDsn"                   -> {"mongodb://", "ftp://"}
      [] cls = "KafkaDsn"                   -> {"kafka://", "ftp://"}

UserInputs == {"", "user@", "user:pw@", "@"}

HostInputs == {"", "x.com", "localhost", "b^cher.example", "xn--b^.de",
               "1.2.3.4", "[::1]", "x.com,y.org"}

PortInputs == {"", ":80", ":65535", ":65536"}

TailInputs == {"", "/db", "/db?q#f", " extra"}

Segments == {"", "x.com", "x.com:5432", "y.org:5433", "host1:5432", "y.org:65536"}

RECURSIVE HostLists(_)
HostLists(n) ==
    IF n = 1 THEN Segments
    ELSE {l \o "," \o g : l \in HostLists(n - 1), g \in Segments}

Inputs(cls) ==
    IF IsMultiHost(cls)
    THEN {sc \o u \o h \o t : sc \in SchemeInputs(cls), u \in UserInputs,
                             h \in UNION {HostLists(n) : n \in 1..MaxHosts},
                             t \in TailInputs}
    ELSE {sc \o u \o h \o p \o t : sc \in SchemeInputs(cls), u \in UserInputs,
                                  h \in HostInputs, p \in PortInputs, t \in TailInputs}

----------------------------------------------------------------------------
(* The module-level regex caches and the threads that call the pattern     *)
(* functions url_regex(), multi_host_url_regex(), ascii_domain_regex(),    *)
(* int_domain_regex() and host_regex().                                    *)

MaxThreads == 2

\* The calls made in a run, over all threads.
MaxCalls == 3

Threads == 1..MaxThreads

\* The five pattern functions; each has its own _..._cache global.
PatternFunctions == {"url_regex", "multi_host_url_regex", "ascii_domain_regex",
                     "int_domain_regex", "host_regex"}

\* The value None of a cache global or of a local.
NoPattern == [fn |-> "", id |-> 0]

\* The object re.compile(...) returns: a new object for the function's pattern.
re_compile(fn, id) == [fn |-> fn, id |-> id]

\* The test that always holds: every call compiles.
cache_is_none_always(slots, fn) == TRUE

\* if _..._cache is None
cache_is_none(slots, fn) == slots[fn] = NoPattern

\* A thread outside the pattern functions.
Idle == [fn |-> "", at |-> "idle", made |-> NoPattern, got |-> NoPattern]

VARIABLES
    cache,        \* the five _..._cache globals, by pattern function
    caller,       \* per thread: the function it is in, its position, the object
                  \* it compiled, and what its last call returned
    calls,        \* the calls begun so far
    compiled      \* the re.compile calls so far

cache_vars == <<cache, caller, calls, compiled>>

\* The module as imported: every cache is None and no thread is in a call.
CachesEmpty ==
    /\ cache = [fn \in PatternFunctions |-> NoPattern]
    /\ caller = [t \in Threads |-> Idle]
    /\ calls = 0
    /\ compiled = 0

----------------------------------------------------------------------------
(* cls.validate(url) as a state machine, then validate(str(value)).        *)

VARIABLES
    cls,          \* the URL family validate is called on
    url,          \* the input of this call
    pc,           \* the position of validate
    m,            \* the match: its groupdict and m.end()
    parts,        \* the parts, after apply_default_parts
    hosts_parts,  \* the host records of _build_url
    value,        \* the value returned
    error,        \* the exception raised
    pass,         \* 1: validate(input); 2: validate(str(value of pass 1))
    first         \* in pass 2: the input, the value and the rebuild flag of pass 1

vars == <<cls, url, pc, m, parts, hosts_parts, value, error, pass, first>>

NoMatch == [groups |-> << >>, end |-> 0]

NoValue == [str |-> None]

NoFirst == [url |-> None, value |-> NoValue, rebuild |-> FALSE]

Init ==
    /\ cls \in Families
    /\ url \in Inputs(cls)
    /\ pc = "Received"
    /\ m = NoMatch
    /\ parts = << >>
    /\ hosts_parts = << >>
    /\ value = NoValue
    /\ error = NoError
    /\ pass = 1
    /\ first = NoFirst
    /\ CachesEmpty

\* m = cls._match_url(url); the pattern matches every input (assert m).
MatchUrl ==
    /\ pc = "Received"
    /\ m' = match_url(cls, url)
    /\ pc' = "Matched"
    /\ UNCHANGED <<cls, url, parts, hosts_parts, value, error, pass, first>>
    /\ UNCHANGED cache_vars

\* parts = cls.apply_default_parts(original_parts)
ApplyDefaultParts ==
    /\ pc = "Matched"
    /\ parts' = apply_default_parts(cls, m.groups)
    /\ pc' = "PartsFilled"
    /\ UNCHANGED <<cls, url, m, hosts_parts, value, error, pass, first>>
    /\ UNCHANGED cache_vars

\* parts = cls.validate_parts(parts)
ValidateParts ==
    /\ pc = "PartsFilled"
    /\ error' = validate_parts(cls, parts)
    /\ pc' = IF error'.kind = "none" THEN "PartsValidated" ELSE "Rejected"
    /\ UNCHANGED <<cls, url, m, parts, hosts_parts, value, pass, first>>
    /\ UNCHANGED cache_vars

\* if m.end() != len(url): raise url.extra
CheckExtra ==
    /\ pc = "PartsValidated"
    /\ IF m.end # Len(url)
       THEN /\ error' = CustomError("url.extra",
                                    "URL invalid, extra characters found after valid URL: {extra}",
                                    Slice(url, m.end, Len(url)))
            /\ pc' = "Rejected"
       ELSE /\ error' = error
            /\ pc' = "ExtraChecked"
    /\ UNCHANGED <<cls, url, m, parts, hosts_parts, value, pass, first>>
    /\ UNCHANGED cache_vars

\* _build_url, first half: validate_host (and the port) of every host.
ValidateHosts ==
    /\ pc = "ExtraChecked"
    /\ hosts_parts' = validate_hosts(cls, m.groups, parts)
    /\ error' = first_error(hosts_parts')
    /\ pc' = CASE error'.kind = "none"  -> "HostsValidated"
               [] error'.kind = "error" -> "Rejected"
               [] OTHER                 -> "Raised"
    /\ UNCHANGED <<cls, url, m, parts, value, pass, first>>
    /\ UNCHANGED cache_vars

\* The value is returned, or the exception of cls(...) is raised.
Returned(made) ==
    /\ value' = IF made.err.kind = "none" THEN made.value ELSE value
    /\ error' = IF made.err.kind = "none" THEN error ELSE made.err
    /\ pc' = IF made.err.kind = "none" THEN "Finalized" ELSE "Raised"

\* _build_url, second half: return cls(None if rebuild else url, ...)
Construct ==
    /\ pc = "HostsValidated"
    /\ Returned(construct(cls, url, parts, hosts_parts))
    /\ UNCHANGED <<cls, url, m, parts, hosts_parts, pass, first>>
    /\ UNCHANGED cache_vars

\* validate(str(value)) of the value of the first call.
Revalidate ==
    /\ pc = "Finalized"
    /\ pass = 1
    /\ first' = [url |-> url, value |-> value,
                 rebuild |-> \E i \in 1..Len(hosts_parts) : hosts_parts[i].rebuild]
    /\ url' = value.str
    /\ pass' = 2
    /\ pc' = "Received"
    /\ m' = NoMatch
    /\ parts' = << >>
    /\ hosts_parts' = << >>
    /\ value' = NoValue
    /\ UNCHANGED <<cls, error>>
    /\ UNCHANGED cache_vars

Next ==
    \/ MatchUrl
    \/ ApplyDefaultParts
    \/ ValidateParts
    \/ CheckExtra
    \/ ValidateHosts
    \/ Construct
    \/ Revalidate

Spec == Init /\ [][Next]_<<vars, cache_vars>>

----------------------------------------------------------------------------
(* The pattern functions, one step per read or write of the cache global:  *)
(*     global _x_cache                                                     *)
(*     if _x_cache is None:            TestCache                           *)
(*         _x_cache = re.compile(...)  CompilePattern, then StoreCache     *)
(*     return _x_cache                 ReturnCache                         *)

At_(t, at) == [caller EXCEPT ![t].at = at]

\* A thread calls one of the pattern functions.
CallPattern ==
    \E t \in Threads, fn \in PatternFunctions :
        /\ caller[t].at = "idle"
        /\ calls < MaxCalls
        /\ caller' = [caller EXCEPT ![t].fn = fn, ![t].at = "test", ![t].made = NoPattern]
        /\ calls' = calls + 1
        /\ UNCHANGED <<cache, compiled>>
        /\ UNCHANGED vars

\* if _x_cache is None
TestCache ==
    \E t \in Threads :
        /\ caller[t].at = "test"
        /\ caller' = At_(t, IF cache_is_none(cache, caller[t].fn) THEN "compile" ELSE "return")
        /\ UNCHANGED <<cache, calls, compiled>>
        /\ UNCHANGED vars

\* re.compile(...): a new object, or one re.compile made before and kept.
CompilePattern ==
    \E t \in Threads, id \in 1..(compiled + 1) :
        /\ caller[t].at = "compile"
        /\ caller' = [caller EXCEPT ![t].made = re_compile(caller[t].fn, id), ![t].at = "store"]
        /\ compiled' = compiled + 1
        /\ UNCHANGED <<cache, calls>>
        /\ UNCHANGED vars

\* _x_cache = <the compiled pattern>
StoreCache ==
    \E t \in Threads :
        /\ caller[t].at = "store"
        /\ cache' = [cache EXCEPT ![caller[t].fn] = caller[t].made]
        /\ caller' = At_(t, "return")
        /\ UNCHANGED <<calls, compiled>>
        /\ UNCHANGED vars

\* return _x_cache
ReturnCache ==
    \E t \in Threads :
        /\ caller[t].at = "return"
        /\ caller' = [caller EXCEPT ![t].got = cache[caller[t].fn], ![t].at = "idle"]
        /\ UNCHANGED <<cache, calls, compiled>>
        /\ UNCHANGED vars

\* The threads call the pattern functions; no validate call is under way.
CacheInit ==
    /\ CachesEmpty
    /\ cls = "AnyUrl"
    /\ url = "http://x.com"
    /\ pc = "Received"
    /\ m = NoMatch
    /\ parts = << >>
    /\ hosts_parts = << >>
    /\ value = NoValue
    /\ error = NoError
    /\ pass = 1
    /\ first = NoFirst

CacheNext ==
    \/ CallPattern
    \/ TestCache
    \/ CompilePattern
    \/ StoreCache
    \/ ReturnCache

CacheSpec == CacheInit /\ [][CacheNext]_<<vars, cache_vars>>

----------------------------------------------------------------------------
(* Properties of validate.                                                 *)

Terminal == {"Finalized", "Rejected", "Raised"}

\* The typed errors of the taxonomy.
Taxonomy == {"url.extra", "url.scheme", "url.port", "url.userinfo", "url.host"}

\* validate_parts has run in this call.
PastParts == pc \notin {"Received", "Matched", "PartsFilled"}

SchemeAccepted ==
    /\ parts.scheme # None
    /\ allowed_schemes(cls) = {} \/ lower(parts.scheme) \in allowed_schemes(cls)

TooBig(port) == port # None /\ int(port) > 65535

AnyRebuild == \E i \in 1..Len(hosts_parts) : hosts_parts[i].rebuild

\* C1: every call of validate ends in a value or in one typed error of the
\* taxonomy, also for a multi-host DSN with a host that needs a rebuild.
C1_ValueOrTypedError ==
    pc \in Terminal =>
        \/ pc = "Finalized" /\ value # NoValue /\ error = NoError
        \/ pc = "Rejected" /\ error.kind = "error" /\ error.type \in Taxonomy

\* C2: a multi-host DSN of n >= 2 valid host segments validates; hosts has
\* the n records in input order and the flat fields are absent.
C2_MultiHostSucceeds ==
    ( /\ IsMultiHost(cls)
      /\ pc \in {"HostsValidated", "Finalized", "Raised"}
      /\ Len(hosts_parts) >= 2
      /\ \A i \in 1..Len(hosts_parts) : hosts_parts[i].err = NoError )
    => /\ pc # "Raised"
       /\ pc = "Finalized" =>
            /\ Len(value.hosts) = Len(hosts_parts)
            /\ \A i \in 1..Len(hosts_parts) :
                    /\ value.hosts[i].host = hosts_parts[i].host
                    /\ value.hosts[i].port = hosts_parts[i].port
            /\ value.host = None /\ value.tld = None
            /\ value.host_type = None /\ value.port = None

\* C3: after a validate with rebuild = true, validate(str(v)) succeeds with
\* rebuild = false.
C3_RebuiltIsFixedPoint ==
    (pass = 2 /\ first.rebuild) =>
        /\ pc \notin {"Rejected", "Raised"}
        /\ pc \in {"HostsValidated", "Finalized"} => ~AnyRebuild

\* C4: validate(str(validate(s))) succeeds and has the fields of validate(s).
C4_Idempotent ==
    pass = 2 =>
        /\ pc \notin {"Rejected", "Raised"}
        /\ pc = "Finalized" =>
            /\ value.scheme = first.value.scheme
            /\ value.user = first.value.user
            /\ value.password = first.value.password
            /\ value.host = first.value.host
            /\ value.tld = first.value.tld
            /\ value.host_type = first.value.host_type
            /\ value.port = first.value.port
            /\ value.path = first.value.path
            /\ value.query = first.value.query
            /\ value.fragment = first.value.fragment
            /\ value.hosts = first.value.hosts

\* C5: an input the match does not consume to its end is rejected with
\* url.extra and the unconsumed suffix, never with another error.
C5_GarbageRejectedFirst ==
    (pc \in Terminal /\ m.end # Len(url)) =>
        /\ pc = "Rejected"
        /\ error.type = "url.extra"
        /\ error.ctx = Slice(url, m.end, Len(url))

\* C6: apply_default_parts gives a key its default iff the key is one the
\* default function returns and the parsed part is None or empty; every
\* other part keeps its parsed value; redis:// gets localhost, 6379 and /0.
C6_DefaultsFillOnlyAbsent ==
    /\ pc \notin {"Received", "Matched"} =>
        /\ DOMAIN parts = DOMAIN m.groups
        /\ \A key \in DOMAIN parts :
            IF key \in DOMAIN get_default_parts(cls, m.groups) /\ m.groups[key] \in {None, ""}
            THEN parts[key] = get_default_parts(cls, m.groups)[key]
            ELSE parts[key] = m.groups[key]
    /\ (cls = "RedisDsn" /\ url = "redis://" /\ pc \in Terminal) =>
        /\ pc = "Finalized"
        /\ value.host = "localhost" /\ value.port = "6379" /\ value.path = "/0"

\* A Redis value whose host and path are the defaults and whose port is the
\* input's.
C6_Witness ==
    /\ cls = "RedisDsn" /\ pc = "Finalized" /\ pass = 1
    /\ m.groups.domain = None /\ value.host = "localhost"
    /\ m.groups.port = "80" /\ value.port = "80"
    /\ m.groups.path = None /\ value.path = "/0"

\* ', '.join(sorted(set(cls.allowed_schemes))), written out.
AllowedText ==
    CASE cls \in {"AnyHttpUrl", "HttpUrl"} -> "http, https"
      [] cls = "FileUrl"      -> "file"
      [] cls = "PostgresDsn"  -> "postgres, postgresql, postgresql+asyncpg, postgresql+pg8000, "
                                 \o "postgresql+psycopg, postgresql+psycopg2, postgresql+psycopg2cffi, "
                                 \o "postgresql+py-postgresql, postgresql+pygresql"
      [] cls = "CockroachDsn" -> "cockroachdb, cockroachdb+asyncpg, cockroachdb+psycopg2"
      [] cls = "AmqpDsn"      -> "amqp, amqps"
      [] cls = "RedisDsn"     -> "redis, rediss"
      [] cls = "MongoDsn"     -> "mongodb"
      [] cls = "KafkaDsn"     -> "kafka"
      [] OTHER                -> None

\* C7: validate_parts fails with url.scheme "not permitted" (context: the
\* sorted allowed schemes) iff the family restricts schemes and the
\* lower-cased scheme is not allowed; it fails with url.scheme "missing" iff
\* the scheme is absent.
C7_SchemeGate ==
    PastParts =>
        /\ (error.type = "url.scheme" /\ error.msg = "invalid or missing URL scheme")
            <=> parts.scheme = None
        /\ (error.type = "url.scheme" /\ error.msg = "URL scheme not permitted")
            <=> (parts.scheme # None /\ allowed_schemes(cls) # {}
                 /\ lower(parts.scheme) \notin allowed_schemes(cls))
        /\ error.msg = "URL scheme not permitted" => error.ctx = AllowedText

\* HTTP://... passes the gate of {http, https}.
C7_Witness == cls = "HttpUrl" /\ pc = "PartsValidated" /\ parts.scheme = "HTTP"

\* C8 as amended: no value carries a port above 65535; a single-host family
\* fails with url.port iff the scheme checks pass and the port is above
\* 65535; a multi-host family never fails with url.port in validate_parts,
\* and a segment with a port above 65535 keeps the DSN from validating.
C8_PortBounds ==
    /\ pc = "Finalized" =>
        /\ ~TooBig(value.port)
        /\ \A i \in 1..Len(value.hosts) : ~TooBig(value.hosts[i].port)
    /\ (PastParts /\ ~IsMultiHost(cls)) =>
        (error.type = "url.port" <=> (SchemeAccepted /\ TooBig(parts.port)))
    /\ (PastParts /\ IsMultiHost(cls) /\ pc # "Raised" /\ hosts_parts = << >>) =>
        error.type # "url.port"
    /\ (IsMultiHost(cls) /\ \E i \in 1..Len(hosts_parts) : TooBig(hosts_parts[i].port)) =>
        pc \in {"Rejected", "Raised"}

\* Port 65536 is refused after the scheme was accepted.
C8_Witness ==
    /\ cls = "HttpUrl" /\ pc = "Rejected" /\ error.type = "url.port"
    /\ parts.scheme = "http" /\ parts.port = "65536"

\* C8 as stated: a single-host family fails with url.port iff the port is
\* above 65535.
C8_Original ==
    (PastParts /\ ~IsMultiHost(cls)) => (error.type = "url.port" <=> TooBig(parts.port))

\* C9 as amended: a multi-host value of one host segment has the flat fields
\* of that host and no hosts list; one of several segments has the flat
\* fields absent and hosts the records of all segments in input order.
C9_HostsShape ==
    (pc = "Finalized" /\ IsMultiHost(cls)) =>
        /\ Len(hosts_parts) = Len(split(m.groups.hosts, ","))
        /\ IF Len(hosts_parts) = 1
           THEN /\ value.hosts = NoHosts
                /\ value.host = hosts_parts[1].host
                /\ value.tld = hosts_parts[1].tld
                /\ value.host_type = hosts_parts[1].host_type
                /\ value.port = hosts_parts[1].port
           ELSE /\ value.host = None /\ value.tld = None
                /\ value.host_type = None /\ value.port = None
                /\ Len(value.hosts) = Len(hosts_parts)
                /\ \A i \in 1..Len(hosts_parts) : value.hosts[i] = HostParts(hosts_parts[i])

\* A value of two equal hosts: both are kept.
C9_Witness ==
    /\ cls = "PostgresDsn" /\ pc = "Finalized"
    /\ Len(value.hosts) = 2 /\ value.hosts[1] = value.hosts[2]
    /\ value.host = None

\* C9 as stated: the flat fields mirror the first host and hosts is the
\* full list.
C9_Original ==
    (pc = "Finalized" /\ IsMultiHost(cls)) =>
        /\ value.host = hosts_parts[1].host
        /\ value.tld = hosts_parts[1].tld
        /\ value.host_type = hosts_parts[1].host_type
        /\ value.port = hosts_parts[1].port
        /\ Len(value.hosts) = Len(hosts_parts)
        /\ \A i \in 1..Len(hosts_parts) : value.hosts[i] = HostParts(hosts_parts[i])

\* C10: an HttpUrl without a port gets 80 for http and 443 for https in any
\* letter case of the scheme; a port of the input is kept.
C10_HttpDefaultPort ==
    (cls = "HttpUrl" /\ pc = "Finalized") =>
        IF m.groups.port = None
        THEN value.port = IF lower(value.scheme) = "http" THEN "80" ELSE "443"
        ELSE value.port = m.groups.port

\* A thread has seen the cache of fn empty and has not stored yet.
Racing(fn) == \E t \in Threads : caller[t].fn = fn /\ caller[t].at \in {"compile", "store"}

\* The cache of fn is filled and every call that raced on it has stored.
Settled(fn) == cache[fn] # NoPattern /\ ~Racing(fn)

\* Thread t returns from a call of fn in this step.
Returns(t, fn) == caller[t].fn = fn /\ caller[t].at = "return" /\ caller'[t].at = "idle"

CacheStateOk ==
    /\ \A t \in Threads :
        (caller[t].at = "idle" /\ caller[t].fn # "") =>
            (caller[t].got # NoPattern /\ caller[t].got.fn = caller[t].fn)
    /\ \A fn \in PatternFunctions : cache[fn] # NoPattern => cache[fn].fn = fn

CacheStepOk ==
    \A fn \in PatternFunctions :
        /\ cache[fn] # NoPattern => cache'[fn] # NoPattern
        /\ cache'[fn] # cache[fn] =>
            /\ \E t \in Threads : /\ caller[t].fn = fn /\ caller[t].at = "store"
                                  /\ caller'[t].at = "return"
            /\ \A other \in PatternFunctions \ {fn} : cache'[other] = cache[other]
        /\ Settled(fn) =>
            /\ Settled(fn)'
            /\ cache'[fn] = cache[fn]
            /\ \A t \in Threads : Returns(t, fn) => caller'[t].got = cache[fn]

\* C11: in every interleaving of the threads no call of a pattern function
\* returns None, a filled cache is never emptied, a call writes only the
\* cache of its own function, and once the calls that raced on the first use
\* of a function have stored, its cache no longer changes, no call compiles
\* again and every call returns the cached object.
C11_CacheUnderRace == [](CacheStateOk) /\ [][CacheStepOk]_<<vars, cache_vars>>

\* Two calls of url_regex() both compiled, and a third call has returned.
C11_Witness ==
    /\ calls = 3 /\ compiled = 2
    /\ \A t \in Threads : caller[t].at = "idle" /\ caller[t].fn = "url_regex"
    /\ \A t \in Threads : caller[t].got = cache["url_regex"]

\* C12: for RedisDsn and KafkaDsn a value of an input with an IPv4 or IPv6
\* host has that host, host_type ipv4 or ipv6 and no rebuild; the default
\* host localhost is used only for an input without a host.
C12_ExplicitIpKept ==
    (cls \in {"RedisDsn", "KafkaDsn"} /\ pc = "Finalized") =>
        /\ m.groups.ipv4 # None =>
            (value.host = m.groups.ipv4 /\ value.host_type = "ipv4" /\ ~AnyRebuild)
        /\ m.groups.ipv6 # None =>
            (value.host = m.groups.ipv6 /\ value.host_type = "ipv6" /\ ~AnyRebuild)
        /\ (m.groups.domain = None /\ value.host = "localhost") =>
            (m.groups.ipv4 = None /\ m.groups.ipv6 = None)

\* host_regex().match(segment) stops at the end of the segment.
Consumed(segment) == HostMatch(segment, 0).end = Len(segment)

AllConsumed(segments) == \A i \in 1..Len(segments) : Consumed(segments[i])

\* C13: a multi-host DSN is accepted only if the bare-host pattern consumes
\* every comma-separated segment of the host position to its end.
C13_SegmentsConsumed ==
    (IsMultiHost(cls) /\ pc = "Finalized") => AllConsumed(split(m.groups.hosts, ","))

=============================================================================
